---- MODULE Spec2Model ----
(***************************************************************************)
(* Movie dashboard (src/app.py): a Streamlit script.  The script runs once *)
(* when the page opens and again, top to bottom, after every widget        *)
(* interaction.  load_data() is memoised by st.cache_data, so the cleaned  *)
(* DataFrame df is computed on the first run only.                         *)
(*                                                                         *)
(* Conventions of the model                                                *)
(*  - a spreadsheet cell is a record [t, v]: t = "na" (empty cell),        *)
(*    t = "bad" (text that pd.to_numeric cannot parse), t = "num" (a       *)
(*    number, v in TENTHS: 20015 is 2001.5), t = "str" (text number v);    *)
(*  - a Genre cell is [t, s] with s the text as a sequence of characters;  *)
(*  - float columns of df (Vote_Average, Popularity) are fixed point, in   *)
(*    tenths; Release_Date of df is a whole year after astype(int);        *)
(*  - a float result is [nan, num, den]: NaN, or the rational num/den;     *)
(*  - a DataFrame is a sequence of rows; the field idx of a row is its     *)
(*    index label (the 0-based position of the row in the spreadsheet),    *)
(*    which dropna, boolean masks and nlargest all preserve.               *)
(***************************************************************************)
EXTENDS Integers, Sequences, FiniteSets, TLC

VARIABLES
    xlsx,             \* the spreadsheet mymoviedb.xlsx read by load_data
    loaded,           \* TRUE once the script has run (st.cache_data is filled)
    df,               \* the cached, cleaned dataset
    theme_mode,       \* sidebar radio "Choose Theme:"
    bg_color,         \* colour derived from the theme
    years,            \* options of the year multiselect
    selected_years,   \* value of the year multiselect
    all_genres,       \* options of the genre multiselect
    selected_genres,  \* value of the genre multiselect
    filtered_df,      \* the filtered view
    total_movies,     \* KPI: row count
    avg_rating,       \* KPI: mean Vote_Average, in hundredths
    avg_popularity,   \* KPI: mean Popularity, in hundredths
    rating_year,      \* tab1: per-year mean rating
    top_movies,       \* tab2: top rows by Popularity
    genre_df,         \* tab3: genre name -> count
    plot_sizes,       \* tab4: marker sizes
    division,         \* tab4: "none", "done" or "by_zero": the division of line 229
    shown,            \* what each tab and the download area display
    computed          \* the aggregate computations performed by the last run

vars == <<xlsx, loaded, df, theme_mode, bg_color, years, selected_years,
          all_genres, selected_genres, filtered_df, total_movies, avg_rating,
          avg_popularity, rating_year, top_movies, genre_df, plot_sizes,
          division, shown, computed>>

-----------------------------------------------------------------------------
(* Bounds of the model *)

MaxRows == 2       \* rows of a spreadsheet in the load and filter families
MaxSizeRows == 3   \* rows of a spreadsheet in the marker-size family
TopExtra == 1      \* rows beyond the top-N limit in the top-N family

-----------------------------------------------------------------------------
(* Cells and small helpers *)

NA == [t |-> "na", v |-> 0]
Bad == [t |-> "bad", v |-> 0]
Num(n) == [t |-> "num", v |-> n]
Str(k) == [t |-> "str", v |-> k]
GNA == [t |-> "na", s |-> <<>>]
GStr(chars) == [t |-> "str", s |-> chars]

NaN == [nan |-> TRUE, num |-> 0, den |-> 1]
Rat(n, d) == [nan |-> FALSE, num |-> n, den |-> d]

Range(f) == {f[i] : i \in DOMAIN f}

SeqsUpTo(S, n) == UNION {[1..k -> S] : k \in 0..n}

RECURSIVE SumSeq(_)
SumSeq(s) == IF s = <<>> THEN 0 ELSE Head(s) + SumSeq(Tail(s))

RECURSIVE Concat(_)
Concat(ss) == IF ss = <<>> THEN <<>> ELSE Head(ss) \o Concat(Tail(ss))

SetMin(S) == CHOOSE m \in S : \A o \in S : m <= o
SetMax(S) == CHOOSE m \in S : \A o \in S : m >= o

RECURSIVE SortedAsc(_)
SortedAsc(S) == IF S = {} THEN <<>> ELSE <<SetMin(S)>> \o SortedAsc(S \ {SetMin(S)})

RECURSIVE PermsOf(_)
PermsOf(S) ==
    IF S = {} THEN {<<>>}
    ELSE UNION {{<<e>> \o p : p \in PermsOf(S \ {e})} : e \in S}

-----------------------------------------------------------------------------
(* Python string operations, on sequences of characters *)

Whitespace == {" ", "\t", "\n", "\r"}

RECURSIVE LStrip(_)
LStrip(s) ==
    IF s # <<>> /\ Head(s) \in Whitespace THEN LStrip(Tail(s)) ELSE s

RECURSIVE RStrip(_)
RStrip(s) ==
    IF s # <<>> /\ s[Len(s)] \in Whitespace
    THEN RStrip(SubSeq(s, 1, Len(s) - 1)) ELSE s

\* str.strip()
Strip(s) == RStrip(LStrip(s))

\* str.replace("\r", "")
RemoveCR(s) == SelectSeq(s, LAMBDA c : c # "\r")

\* str.split(","): the pieces between commas, empty pieces included
RECURSIVE Split(_)
Split(s) ==
    IF \A i \in DOMAIN s : s[i] # ","
    THEN <<s>>
    ELSE LET k == SetMin({i \in DOMAIN s : s[i] = ","})
         IN <<SubSeq(s, 1, k - 1)>> \o Split(SubSeq(s, k + 1, Len(s)))

\* sub in s
Contains(s, sub) ==
    \E i \in 0..(Len(s) - Len(sub)) : SubSeq(s, i + 1, i + Len(sub)) = sub

GenreName == <<"G", "e", "n", "r", "e">>
NanText == <<"n", "a", "n">>

-----------------------------------------------------------------------------
(* load_data *)

\* pd.to_numeric(cell, errors="coerce"): a number, or NaN
to_numeric(cell) == IF cell.t = "num" THEN cell ELSE NA

\* Lines 23-30: the column that becomes "Genre".  The header is stripped; an
\* exact match is used, else a column whose name contains "Genre" is renamed,
\* else the Genre column is created holding "".
has_genre_column(header) ==
    Strip(header) = GenreName \/ Contains(Strip(header), GenreName)

\* Line 32: astype(str) (an empty cell becomes the text "nan"), "\r" removed,
\* strip.
clean_genre(header, cell) ==
    IF ~has_genre_column(header) THEN <<>>
    ELSE Strip(RemoveCR(IF cell.t = "na" THEN NanText ELSE cell.s))

\* Variant: dropna(subset=["Release_Date"]), Title forgotten
keep_row_date_only(r) == to_numeric(r.Release_Date).t # "na"

\* Line 35: dropna(subset=["Release_Date", "Title"]) after line 33's coercion
keep_row(r) ==
    to_numeric(r.Release_Date).t # "na" /\ r.Title.t # "na"

\* 0-based index labels of the rows dropna keeps, in order
kept_labels(rows) ==
    SortedAsc({i - 1 : i \in {j \in DOMAIN rows : keep_row(rows[j])}})

\* Lines 37-47, float columns: a missing column is the scalar 0.0, a present
\* one is coerced and NaN filled with 0.0
float_column(present, cell) ==
    IF ~present THEN 0
    ELSE IF to_numeric(cell).t = "na" THEN 0 ELSE cell.v

\* Lines 39-40: pd.Series([0]*len(df), dtype="Int64") has the labels
\* 0..len(df)-1; assigning it to df[col] aligns on the index labels of df, so
\* a kept row whose label is not below len(df) receives <NA>.
synth_vote_count(label, n) == IF label < n THEN Num(0) ELSE NA

\* Lines 37-45, Vote_Count: a missing column is synthesised, a present one is
\* coerced to nullable Int64 (unparseable becomes <NA>).  The cells of the
\* model hold whole numbers; astype("Int64") raises on a fractional one.
vote_count_column(present, cell, label, n) ==
    IF ~present THEN synth_vote_count(label, n)
    ELSE IF to_numeric(cell).t = "na" THEN NA ELSE Num(cell.v \div 10)

\* Line 49: astype(int) truncates the parsed number to a whole year
year_as_int(cell) == cell.v \div 10

load_data(file) ==
    LET labels == kept_labels(file.rows)
        n == Len(labels)
        row(k) ==
            LET r == file.rows[labels[k] + 1]
            IN [idx |-> labels[k],
                Title |-> r.Title,
                Release_Date |-> year_as_int(to_numeric(r.Release_Date)),
                Genre |-> clean_genre(file.genre_col, r.Genre),
                Vote_Average |-> float_column("Vote_Average" \in file.has, r.Vote_Average),
                Popularity |-> float_column("Popularity" \in file.has, r.Popularity),
                Vote_Count |-> vote_count_column("Vote_Count" \in file.has,
                                                 r.Vote_Count, labels[k], n)]
    IN [k \in 1..n |-> row(k)]

\* Lines 19 and 52: @st.cache_data runs load_data on the first call and hands
\* back the stored result on every later run of the script
load_data_cached(is_cached, cached, file) ==
    IF is_cached THEN cached ELSE load_data(file)

-----------------------------------------------------------------------------
(* Sidebar: theme, widget options, filters (lines 60-114) *)

\* Lines 63-90
theme_bg(mode) == IF mode = "Dark" THEN "#0E1117" ELSE "#FFFFFF"

\* Line 93: the distinct years of df (the multiselect shows them sorted)
year_options(d) == {d[i].Release_Date : i \in DOMAIN d}

\* [g.strip() for g in x.split(",")]
genre_tokens(x) ==
    LET parts == Split(x) IN [i \in DOMAIN parts |-> Strip(parts[i])]

\* Lines 100-103, one cell: g.strip() for g in (cell.split(",") if cell else [])
\* if g.strip()
nonempty_tokens(x) ==
    IF x = <<>> THEN <<>> ELSE SelectSeq(genre_tokens(x), LAMBDA g : g # <<>>)

\* Lines 97-105: the genres offered by the multiselect, from the whole of df
genre_options(d) == UNION {Range(nonempty_tokens(d[i].Genre)) : i \in DOMAIN d}

\* Variant: an empty year selection read as "no restriction"
year_filter_empty_is_all(d, ys) ==
    IF ys = {} THEN d ELSE SelectSeq(d, LAMBDA r : r.Release_Date \in ys)

\* Line 109: df[df["Release_Date"].isin(selected_years)]
year_filter(d, ys) == SelectSeq(d, LAMBDA r : r.Release_Date \in ys)

\* Variant: the genre options follow the year selection (cascading filters)
sidebar_genres_cascading(d, ys) ==
    genre_options(SelectSeq(d, LAMBDA r : r.Release_Date \in ys))

\* Lines 97-106: the options come from df itself, whatever years are selected
sidebar_genres(d, ys) == genre_options(d)

\* Variant: any(sel in x for sel in selected_genres), a substring test
row_matches_substring(x, gs) == \E sel \in gs : Contains(x, sel)

\* Line 113: any(sel in [g.strip() for g in x.split(",")] for sel in selected_genres)
row_matches(x, gs) == \E sel \in gs : sel \in Range(genre_tokens(x))

\* Lines 110-114: the genre mask is applied only when a genre is selected
genre_filter(f, gs) ==
    IF gs # {} THEN SelectSeq(f, LAMBDA r : row_matches(r.Genre, gs)) ELSE f

\* Lines 109-114
apply_filters(d, ys, gs) == genre_filter(year_filter(d, ys), gs)

-----------------------------------------------------------------------------
(* KPIs (lines 120-127) *)

\* Series.mean(): NaN on an empty column, else the exact mean (values are tenths)
mean(view, col) ==
    IF Len(view) = 0 THEN NaN
    ELSE Rat(SumSeq([i \in DOMAIN view |-> view[i][col]]), 10 * Len(view))

\* round(x, 2) of a non-negative float, in hundredths.  A value exactly half
\* way between two hundredths has no exact binary representation in general,
\* so either neighbour can result.
round2(x) ==
    IF x.nan THEN {NaN}
    ELSE LET q == (100 * x.num) \div x.den
             r == (100 * x.num) % x.den
         IN IF 2 * r < x.den THEN {Rat(q, 100)}
            ELSE IF 2 * r > x.den THEN {Rat(q + 1, 100)}
            ELSE {Rat(q, 100), Rat(q + 1, 100)}

\* Variant: the mean taken without the total_movies > 0 guard
kpi_unguarded(view, col) == round2(mean(view, col))

\* Lines 122-127: the possible values of a KPI
kpi(view, col) ==
    IF Len(view) > 0 THEN round2(mean(view, col)) ELSE {Rat(0, 100)}

-----------------------------------------------------------------------------
(* tab1: rating by year (lines 151-155) *)

groupby_mean(view) ==
    LET ys == SortedAsc(year_options(view))
        grp(y) == SelectSeq(view, LAMBDA r : r.Release_Date = y)
    IN [k \in DOMAIN ys |->
          [Release_Date |-> ys[k], Vote_Average |-> mean(grp(ys[k]), "Vote_Average")]]

-----------------------------------------------------------------------------
(* tab2: top 10 by Popularity (line 172) *)

TopN == 10

RECURSIVE SortedDesc(_)
SortedDesc(S) == IF S = {} THEN <<>> ELSE <<SetMax(S)>> \o SortedDesc(S \ {SetMax(S)})

\* Variant: keep="last", equal values in reverse input order
stable_desc_last(view) ==
    LET vals == SortedDesc({view[i].Popularity : i \in DOMAIN view})
        pos == [i \in DOMAIN view |-> Len(view) + 1 - i]
    IN Concat([k \in DOMAIN vals |->
                  SelectSeq(pos, LAMBDA i : view[i].Popularity = vals[k])])

\* positions of view in descending Popularity, equal values in input order
stable_desc(view) ==
    LET vals == SortedDesc({view[i].Popularity : i \in DOMAIN view})
        pos == [i \in DOMAIN view |-> i]
    IN Concat([k \in DOMAIN vals |->
                  SelectSeq(pos, LAMBDA i : view[i].Popularity = vals[k])])

\* every arrangement of the positions of view in descending Popularity
RECURSIVE any_desc(_, _)
any_desc(view, S) ==
    IF S = {} THEN {<<>>}
    ELSE LET mx == SetMax({view[i].Popularity : i \in S})
             G == {i \in S : view[i].Popularity = mx}
         IN UNION {{p \o q : q \in any_desc(view, S \ G)} : p \in PermsOf(G)}

\* DataFrame.nlargest(n, "Popularity"), keep="first".  pandas takes one of two
\* paths.  With more than n rows it selects with a stable (mergesort) argsort:
\* equal values keep input order.  With n >= len(view) it returns
\* sort_values(ascending=False).head(n), whose default sort kind (quicksort)
\* is not stable: the order among equal values is not determined by the
\* library contract and differs between numpy builds.
nlargest_order(view, n) ==
    IF n >= Len(view)
    THEN any_desc(view, DOMAIN view)
    ELSE {SubSeq(stable_desc(view), 1, n)}

\* [["Title", "Popularity", "Vote_Average"]]: the index label stays with the row
top_columns(r) ==
    [idx |-> r.idx, Title |-> r.Title, Popularity |-> r.Popularity,
     Vote_Average |-> r.Vote_Average]

nlargest(view, n) ==
    {[k \in DOMAIN o |-> top_columns(view[o[k]])] : o \in nlargest_order(view, n)}

-----------------------------------------------------------------------------
(* tab3: genre distribution (lines 192-198) *)

\* Variant: the "if g.strip()" of line 195 left out
genre_split_keep_empty(view) ==
    Concat([i \in DOMAIN view |->
              IF view[i].Genre # <<>> THEN genre_tokens(view[i].Genre) ELSE <<>>])

\* Lines 193-195
genre_split(view) ==
    Concat([i \in DOMAIN view |->
              IF view[i].Genre # <<>>
              THEN SelectSeq(genre_tokens(view[i].Genre), LAMBDA g : g # <<>>)
              ELSE <<>>])

\* pd.Series(tokens).value_counts(): one (Genre, Count) row per distinct token
value_counts(tokens) ==
    {[Genre |-> g, Count |-> Cardinality({i \in DOMAIN tokens : tokens[i] = g})] :
        g \in Range(tokens)}

-----------------------------------------------------------------------------
(* tab4: marker sizes (lines 218-232) *)

min_size == 5
max_display_size == 40

\* Lines 218-221: Vote_Count, <NA> filled with 0, as int
size_vals(view) ==
    [i \in DOMAIN view |->
        IF view[i].Vote_Count.t = "na" THEN 0 ELSE view[i].Vote_Count.v]

\* Variant: ">= 0" for "> 0"
use_rescale_ge(mx) == mx >= 0

\* Line 227
use_rescale(mx) == mx > 0

\* Lines 229-230, one element: numpy's true division gives NaN for 0/0
rescale(v, mn, mx) ==
    IF mx - mn = 0 THEN NaN
    ELSE Rat((v - mn) * (max_display_size - min_size) + min_size * (mx - mn), mx - mn)

\* Lines 227-232.  division records whether line 229 divided, and by what.
marker_sizes(view) ==
    LET sv == size_vals(view)
        mx == SetMax(Range(sv))
        mn == SetMin(Range(sv))
    IN IF use_rescale(mx)
       THEN [sizes |-> [i \in DOMAIN sv |-> rescale(sv[i], mn, mx)],
             division |-> IF mx - mn = 0 THEN "by_zero" ELSE "done"]
       ELSE [sizes |-> [i \in DOMAIN sv |-> Rat(min_size, 1)], division |-> "none"]

-----------------------------------------------------------------------------
(* One run of the script below the sidebar (lines 108-263) *)

\* "if total_movies > 0", the guard of the KPIs, of every tab and of the download
has_data(n) == n > 0

\* The results one run can produce for the dataset d and the selection ys, gs.
run_script(d, ys, gs) ==
    LET f == apply_filters(d, ys, gs)
        n == Len(f)
        tokens == IF has_data(n) THEN genre_split(f) ELSE <<>>
        ms == IF has_data(n) THEN marker_sizes(f)
              ELSE [sizes |-> <<>>, division |-> "none"]
        chart == IF has_data(n) THEN "chart" ELSE "no_data"
    IN {[filtered_df |-> f,
         total_movies |-> n,
         avg_rating |-> a,
         avg_popularity |-> p,
         rating_year |-> IF has_data(n) THEN groupby_mean(f) ELSE <<>>,
         top_movies |-> t,
         genre_df |-> value_counts(tokens),
         plot_sizes |-> ms.sizes,
         division |-> ms.division,
         shown |-> [tab1 |-> chart,
                    tab2 |-> chart,
                    tab3 |-> IF has_data(n) /\ tokens = <<>> THEN "no_genre" ELSE chart,
                    tab4 |-> chart,
                    download |-> IF has_data(n) THEN "button" ELSE "no_data"],
         computed |-> IF has_data(n)
                      THEN {"mean", "groupby", "nlargest", "genre_split",
                            "marker_size", "to_csv"}
                      ELSE {}] :
            a \in kpi(f, "Vote_Average"),
            p \in kpi(f, "Popularity"),
            t \in IF has_data(n) THEN nlargest(f, TopN) ELSE {<<>>}}

\* The whole script for the theme th and the widget values ys, gs, over the
\* dataset d that load_data returns (from the cache after the first run).
Run(d, th, ys, gs) ==
    \E out \in run_script(d, ys, gs) :
        /\ df' = d
        /\ theme_mode' = th
        /\ bg_color' = theme_bg(th)
        /\ years' = year_options(d)
        /\ all_genres' = sidebar_genres(d, ys)
        /\ selected_years' = ys
        /\ selected_genres' = gs
        /\ filtered_df' = out.filtered_df
        /\ total_movies' = out.total_movies
        /\ avg_rating' = out.avg_rating
        /\ avg_popularity' = out.avg_popularity
        /\ rating_year' = out.rating_year
        /\ top_movies' = out.top_movies
        /\ genre_df' = out.genre_df
        /\ plot_sizes' = out.plot_sizes
        /\ division' = out.division
        /\ shown' = out.shown
        /\ computed' = out.computed

-----------------------------------------------------------------------------
(* Spreadsheets the model loads *)

Optional == {"Vote_Average", "Popularity", "Vote_Count"}

File(rows, header, has) == [rows |-> rows, genre_col |-> header, has |-> has]

\* The row at position i when nothing about it is varied: every row differs
\* from the others in Title, Vote_Average, Popularity and Vote_Count.
DefaultRow(i) ==
    [Title |-> Str(i), Release_Date |-> Num(20000), Genre |-> GStr(<<"A">>),
     Vote_Average |-> Num(60 + i), Popularity |-> Num(10 * i),
     Vote_Count |-> Num(100 * i)]

\* Title and Release_Date vary, and so do the optional columns present
DateCells == {NA, Bad, Num(20000), Num(20015)}
ColumnSets == {Optional, {}, {"Vote_Count"}, Optional \ {"Vote_Count"}}
LoadFiles ==
    {File([i \in DOMAIN c |->
             [DefaultRow(i) EXCEPT !.Title = IF c[i][1] THEN Str(i) ELSE NA,
                                   !.Release_Date = c[i][2]]],
          GenreName, has) :
        c \in SeqsUpTo(BOOLEAN \X DateCells, MaxRows), has \in ColumnSets}

\* The numeric cells and the header of the genre column vary
GenreHeaders ==
    {GenreName, GenreName \o <<"\r">>, <<" ">> \o GenreName \o <<"s">>, <<"K", "i", "n", "d">>}
CoerceFiles ==
    {File([i \in DOMAIN c |->
             [DefaultRow(i) EXCEPT !.Vote_Count = c[i][1], !.Vote_Average = c[i][2],
                                   !.Popularity = c[i][2]]],
          h, Optional) :
        c \in SeqsUpTo({NA, Bad, Num(50)} \X {Bad, Num(65)}, MaxRows),
        h \in GenreHeaders}

\* Genre varies; the rows alternate between two years
GenreCells ==
    {GNA, GStr(<<" ">>), GStr(<<"A">>), GStr(<<"A", ",", " ", "D">>),
     GStr(<<"A", "D">>), GStr(<<"D", "\r", ",">>)}
FilterFiles ==
    {File([i \in DOMAIN c |->
             [DefaultRow(i) EXCEPT !.Genre = c[i],
                                   !.Release_Date = Num(20000 + 10 * (i % 2))]],
          GenreName, Optional) :
        c \in SeqsUpTo(GenreCells, MaxRows)}

\* Vote_Count varies; the rows alternate between two years
CountCells == {NA, Num(-50), Num(0), Num(100), Num(200), Num(300)}
SizeFiles ==
    {File([i \in DOMAIN c |->
             [DefaultRow(i) EXCEPT !.Vote_Count = c[i],
                                   !.Release_Date = Num(20000 + 10 * (i % 2))]],
          GenreName, Optional) :
        c \in SeqsUpTo(CountCells, MaxSizeRows)}

\* Popularity varies, with equal values: short files, files of exactly TopN
\* rows with at most one pair of equal values, and files longer than TopN
\* whose first rows cycle through the three values while the others vary
TiePops == {Num(10), Num(20), Num(30)}
BoundaryPops ==
    {[i \in 1..TopN |-> Num(10 * (IF i = j THEN i - 1 ELSE i))] : j \in 1..TopN}
LongPops(k) ==
    {[i \in 1..k |-> IF i <= TopN - 4 THEN Num(10 * (1 + (i % 3))) ELSE t[i - (TopN - 4)]] :
        t \in [1..(k - (TopN - 4)) -> TiePops]}
TopFiles ==
    {File([i \in DOMAIN c |-> [DefaultRow(i) EXCEPT !.Popularity = c[i]]],
          GenreName, Optional) :
        c \in SeqsUpTo(TiePops, MaxRows) \cup BoundaryPops
              \cup UNION {LongPops(k) : k \in (TopN + 1)..(TopN + TopExtra)}}

Sources == LoadFiles \cup CoerceFiles \cup FilterFiles \cup SizeFiles \cup TopFiles

-----------------------------------------------------------------------------
(* The state machine *)

Init ==
    /\ xlsx \in Sources
    /\ loaded = FALSE
    /\ df = <<>>
    /\ theme_mode = "Dark"
    /\ bg_color = theme_bg("Dark")
    /\ years = {}
    /\ selected_years = {}
    /\ all_genres = {}
    /\ selected_genres = {}
    /\ filtered_df = <<>>
    /\ total_movies = 0
    /\ avg_rating = Rat(0, 100)
    /\ avg_popularity = Rat(0, 100)
    /\ rating_year = <<>>
    /\ top_movies = <<>>
    /\ genre_df = {}
    /\ plot_sizes = <<>>
    /\ division = "none"
    /\ shown = [tab1 |-> "none", tab2 |-> "none", tab3 |-> "none", tab4 |-> "none",
                download |-> "none"]
    /\ computed = {}

\* The page opens: load_data reads the spreadsheet, the theme is "Dark"
\* (index=0), every year is selected (default=years) and no genre (default=[]).
FirstRun ==
    /\ ~loaded
    /\ loaded' = TRUE
    /\ UNCHANGED xlsx
    /\ LET d == load_data_cached(loaded, df, xlsx) IN Run(d, "Dark", year_options(d), {})

\* The user changes the year multiselect
SelectYears ==
    /\ loaded
    /\ UNCHANGED <<xlsx, loaded>>
    /\ \E ys \in SUBSET years :
          /\ ys # selected_years
          /\ Run(load_data_cached(loaded, df, xlsx), theme_mode, ys, selected_genres)

\* The user changes the genre multiselect
SelectGenres ==
    /\ loaded
    /\ UNCHANGED <<xlsx, loaded>>
    /\ \E gs \in SUBSET all_genres :
          /\ gs # selected_genres
          /\ Run(load_data_cached(loaded, df, xlsx), theme_mode, selected_years, gs)

\* The user toggles the theme radio
ChooseTheme ==
    /\ loaded
    /\ UNCHANGED <<xlsx, loaded>>
    /\ \E th \in {"Dark", "Light"} :
          /\ th # theme_mode
          /\ Run(load_data_cached(loaded, df, xlsx), th, selected_years, selected_genres)

Next == FirstRun \/ SelectYears \/ SelectGenres \/ ChooseTheme

Spec == Init /\ [][Next]_vars

-----------------------------------------------------------------------------
(* Vocabulary of the properties, stated from the data and not from the      *)
(* operators that compute the results                                       *)

\* the spreadsheet row with index label l
RawRow(l) == xlsx.rows[l + 1]

\* a spreadsheet row with a Title and a Release_Date that is a number
Complete(r) == r.Title.t # "na" /\ r.Release_Date.t = "num"

\* the trimmed comma-separated tokens of a Genre text
TokenSet(x) == Range(genre_tokens(x))

\* the row r satisfies the selection ys, gs
InView(r, ys, gs) ==
    /\ r.Release_Date \in ys
    /\ gs = {} \/ TokenSet(r.Genre) \cap gs # {}

\* the rows of d satisfying the selection, in the order of d
ViewOf(d, ys, gs) == SelectSeq(d, LAMBDA r : InView(r, ys, gs))

\* Vote_Count of a row of the view, missing taken as 0
CountOf(r) == IF r.Vote_Count.t = "na" THEN 0 ELSE r.Vote_Count.v

ViewCounts == {CountOf(filtered_df[i]) : i \in DOMAIN filtered_df}

\* the size s, a rational, equals the whole number k
SizeIs(s, k) == ~s.nan /\ s.den > 0 /\ s.num = k * s.den

\* number of occurrences of the token g among the tokens of the Genre text x
Occurrences(g, x) ==
    Cardinality({k \in DOMAIN genre_tokens(x) : genre_tokens(x)[k] = g})

\* number of occurrences of g among the tokens of all rows of the view
ViewOccurrences(g) ==
    SumSeq([i \in DOMAIN filtered_df |-> Occurrences(g, filtered_df[i].Genre)])

\* the non-empty tokens found in the view
ViewTokens ==
    (UNION {TokenSet(filtered_df[i].Genre) : i \in DOMAIN filtered_df}) \ {<<>>}

\* index labels of the rows of the view that top_movies leaves out
Excluded ==
    {i \in DOMAIN filtered_df :
        \A k \in DOMAIN top_movies : top_movies[k].idx # filtered_df[i].idx}

TopSize == IF total_movies < TopN THEN total_movies ELSE TopN

TopDescending ==
    \A a, b \in DOMAIN top_movies :
        a < b => top_movies[a].Popularity >= top_movies[b].Popularity

TopDominates ==
    \A e \in Excluded : \A k \in DOMAIN top_movies :
        filtered_df[e].Popularity <= top_movies[k].Popularity

\* rows of top_movies are rows of the view, each at most once
TopFromView ==
    /\ \A k \in DOMAIN top_movies :
          \E i \in DOMAIN filtered_df : top_columns(filtered_df[i]) = top_movies[k]
    /\ \A a, b \in DOMAIN top_movies : a # b => top_movies[a].idx # top_movies[b].idx

\* among equal Popularity, earlier rows are selected and listed first
TopTiesInInputOrder ==
    /\ \A a, b \in DOMAIN top_movies :
          (a < b /\ top_movies[a].Popularity = top_movies[b].Popularity)
              => top_movies[a].idx < top_movies[b].idx
    /\ \A e \in Excluded : \A k \in DOMAIN top_movies :
          filtered_df[e].Popularity = top_movies[k].Popularity
              => top_movies[k].idx < filtered_df[e].idx

-----------------------------------------------------------------------------
(* Properties *)

\* C1: for a non-empty view whose maximum VoteCount is > 0, every marker size
\* is a defined number between 5 and 40, a row holding the minimum gets 5, a
\* row holding the maximum gets 40, and no division by zero occurs.
C1_RescaleDefinedWithin5And40 ==
    (loaded /\ total_movies > 0 /\ \E c \in ViewCounts : c > 0) =>
        /\ division # "by_zero"
        /\ Len(plot_sizes) = Len(filtered_df)
        /\ \A i \in DOMAIN plot_sizes :
              LET s == plot_sizes[i]
                  c == CountOf(filtered_df[i])
              IN /\ ~s.nan
                 /\ s.den > 0
                 /\ min_size * s.den <= s.num
                 /\ s.num <= max_display_size * s.den
                 /\ (\A o \in ViewCounts : c <= o) => SizeIs(s, min_size)
                 /\ (\A o \in ViewCounts : c >= o) => SizeIs(s, max_display_size)

\* C2: the view is exactly the rows of the dataset whose year is selected and,
\* when a genre is selected, whose Genre tokens meet the selected genres; with
\* every year and no genre selected the view is the dataset.
C2_ViewIsTheSelection ==
    loaded =>
        /\ filtered_df = ViewOf(df, selected_years, selected_genres)
        /\ (selected_years = years /\ selected_genres = {}) => filtered_df = df

C2_Witness ==
    /\ loaded
    /\ selected_genres # {}
    /\ filtered_df # <<>>
    /\ \E i \in DOMAIN df :
          /\ df[i].Release_Date \in selected_years
          /\ df[i] \notin Range(filtered_df)

\* C3: with no year selected the view is empty, whatever the genre selection;
\* with no genre selected no row of a selected year is removed.
C3_EmptySelectionsDiffer ==
    loaded =>
        /\ selected_years = {} => filtered_df = <<>>
        /\ selected_genres = {} =>
              \A i \in DOMAIN df :
                  df[i].Release_Date \in selected_years => df[i] \in Range(filtered_df)

C3_Witness ==
    /\ loaded
    /\ df # <<>>
    /\ selected_years = {}
    /\ selected_genres # {}
    /\ filtered_df = <<>>

\* C4: after load_data every retained row has a Title and a whole-number year
\* (the Release_Date truncated), and a spreadsheet row is retained if and only
\* if its Title is present and its Release_Date is a number.
C4_LoadKeepsExactlyCompleteRows ==
    loaded =>
        /\ \A i \in DOMAIN df :
              /\ df[i].Title.t = "str"
              /\ df[i].Title = RawRow(df[i].idx).Title
              /\ df[i].Release_Date \in Int
              /\ 10 * df[i].Release_Date <= RawRow(df[i].idx).Release_Date.v
              /\ RawRow(df[i].idx).Release_Date.v < 10 * (df[i].Release_Date + 1)
        /\ {df[i].idx : i \in DOMAIN df}
              = {j - 1 : j \in {k \in DOMAIN xlsx.rows : Complete(xlsx.rows[k])}}
        /\ \A a, b \in DOMAIN df : a < b => df[a].idx < df[b].idx

C4_Witness ==
    /\ loaded
    /\ df # <<>>
    /\ \E j \in DOMAIN xlsx.rows : xlsx.rows[j].Title.t = "na"
    /\ \E j \in DOMAIN xlsx.rows : xlsx.rows[j].Release_Date.t = "bad"
    /\ \E i \in DOMAIN df : RawRow(df[i].idx).Release_Date.v # 10 * df[i].Release_Date

\* C5: when the spreadsheet has no Vote_Count, Vote_Average or Popularity
\* column, every retained row gets the default (0, 0.0, 0.0), whether or not
\* rows were dropped.
C5_MissingColumnsGetDefaults ==
    loaded =>
        \A i \in DOMAIN df :
            /\ "Vote_Count" \notin xlsx.has => df[i].Vote_Count = Num(0)
            /\ "Vote_Average" \notin xlsx.has => df[i].Vote_Average = 0
            /\ "Popularity" \notin xlsx.has => df[i].Popularity = 0

\* C6 as claimed: Top-N returns min(10, n) rows of the view in descending
\* Popularity, no excluded row is strictly more popular than an included one,
\* and among equal Popularity the earlier rows are selected and listed first.
C6_TopNTiesInInputOrder ==
    (loaded /\ total_movies > 0) =>
        /\ Len(top_movies) = TopSize
        /\ TopFromView
        /\ TopDescending
        /\ TopDominates
        /\ TopTiesInInputOrder

\* C6 as amended: Top-N returns min(10, n) rows of the view in descending
\* Popularity and no excluded row is strictly more popular than an included
\* one; when the view has more than 10 rows, among equal Popularity the
\* earlier rows are selected and listed first.
C6_TopNTiesInInputOrderAboveTen ==
    (loaded /\ total_movies > 0) =>
        /\ Len(top_movies) = TopSize
        /\ TopFromView
        /\ TopDescending
        /\ TopDominates
        /\ total_movies > TopN => TopTiesInInputOrder

C6_Witness ==
    /\ loaded
    /\ total_movies > TopN
    /\ \E e \in Excluded : \E k \in DOMAIN top_movies :
          filtered_df[e].Popularity = top_movies[k].Popularity
    /\ \E a, b \in DOMAIN top_movies :
          a # b /\ top_movies[a].Popularity = top_movies[b].Popularity

\* C7: the genre distribution gives each genre name its number of occurrences
\* among the non-empty trimmed tokens of the rows of the view; the counts add
\* up to the number of such tokens and no genre with zero occurrences is listed.
C7_GenreCountsAreOccurrences ==
    loaded =>
        /\ genre_df = {[Genre |-> g, Count |-> ViewOccurrences(g)] : g \in ViewTokens}
        /\ \A e \in genre_df : e.Count > 0 /\ e.Genre # <<>>
        /\ SumSeq([k \in 1..Cardinality(genre_df) |->
                     (CHOOSE f \in [1..Cardinality(genre_df) -> genre_df] :
                         Range(f) = genre_df)[k].Count])
              = SumSeq([i \in DOMAIN filtered_df |->
                          Len(SelectSeq(genre_tokens(filtered_df[i].Genre),
                                        LAMBDA g : g # <<>>))])

C7_Witness ==
    /\ loaded
    /\ shown.tab3 = "chart"
    /\ \E a, b \in genre_df : a.Count = 2 /\ b.Count = 1
    /\ \E i \in DOMAIN filtered_df : <<>> \in TokenSet(filtered_df[i].Genre)

\* C8: on an empty view the count is 0, both averages are exactly 0.0, no
\* mean, group-by, top-N, genre, marker-size or export computation is done,
\* and the four charts and the download are replaced by a no-data indicator.
C8_EmptyViewShowsNoData ==
    (loaded /\ filtered_df = <<>>) =>
        /\ total_movies = 0
        /\ avg_rating = Rat(0, 100)
        /\ avg_popularity = Rat(0, 100)
        /\ computed = {}
        /\ rating_year = <<>> /\ top_movies = <<>> /\ genre_df = {}
        /\ plot_sizes = <<>> /\ division = "none"
        /\ shown = [tab1 |-> "no_data", tab2 |-> "no_data", tab3 |-> "no_data",
                    tab4 |-> "no_data", download |-> "no_data"]

C8_Witness ==
    /\ loaded
    /\ df # <<>>
    /\ selected_years # {}
    /\ selected_genres # {}
    /\ filtered_df = <<>>

\* C9: for a non-empty view whose maximum VoteCount (missing taken as 0) is 0
\* or less, every marker gets the size 5 and no division is performed.
C9_FixedSizeWhenMaxNotPositive ==
    (loaded /\ total_movies > 0 /\ \A c \in ViewCounts : c <= 0) =>
        /\ division = "none"
        /\ Len(plot_sizes) = Len(filtered_df)
        /\ \A i \in DOMAIN plot_sizes : plot_sizes[i] = Rat(min_size, 1)

C9_Witness ==
    /\ loaded
    /\ total_movies > 1
    /\ \A c \in ViewCounts : c <= 0
    /\ \E c \in ViewCounts : c < 0
    /\ \E i \in DOMAIN filtered_df : filtered_df[i].Vote_Count.t = "na"

\* C10: an interaction (years, genres or theme) never changes the dataset nor
\* the selectable years and genres, and the view after it is determined by
\* the dataset and the current selection alone.
C10_InteractionsLeaveDatasetAlone ==
    [][loaded =>
          /\ df' = df
          /\ years' = years
          /\ all_genres' = all_genres
          /\ filtered_df' = ViewOf(df, selected_years', selected_genres')
          /\ (selected_years' = selected_years /\ selected_genres' = selected_genres)
                => filtered_df' = filtered_df]_vars

C10_Witness ==
    /\ loaded
    /\ theme_mode = "Light"
    /\ selected_years # years
    /\ selected_years # {}
    /\ selected_genres # {}
    /\ filtered_df # <<>>
    /\ Len(filtered_df) < Len(df)

====
